---- MODULE Spec2Model ----
(***************************************************************************)
(* Model of src/pages/ProjectDetailsViewerPage.tsx: the project-details    *)
(* page of UniCollab.  The page is a React function component; its state   *)
(* is the useState cells, the memoised permission record, the closures of  *)
(* the pending effect clean-ups and the backend calls that are in flight.  *)
(*                                                                         *)
(* One action is one event of the single UI thread: a user gesture, a      *)
(* change of an input of the component (route parameter, identity of the   *)
(* notification callback), the arrival of a backend response or of a       *)
(* realtime event.  Every action ends with the re-render it causes and     *)
(* the effects of that render (Commit): React batches the state updates    *)
(* of one event and flushes the effects of the resulting render before     *)
(* the next event is handled.                                              *)
(***************************************************************************)
EXTENDS Integers, Sequences, FiniteSets, TLC

\* ------------------------------------------------------------------ bounds
MaxMsgs == 2        \* rows the message table can get during a run
MaxInflight == 2    \* backend calls of the page that are awaiting a response at a time
MaxRemovals == 2    \* removeChannel calls counted per channel (saturating)
MaxApps == 2        \* applications in a list given to the permission derivation

\* ------------------------------------------------------------------ values
Null == [null |-> TRUE]              \* JavaScript null / undefined
NoChannel == 0                       \* chatChannel === null
NoProjectId == "undefined"           \* useParams() without the parameter
NoError == "null"                    \* error === null
NoAttachment == "null"               \* attachment === null

CONTRIBUTOR == "CONTRIBUTOR"         \* UserRole.CONTRIBUTOR
RESEARCH_LEAD == "RESEARCH_LEAD"     \* the other role
UserRoles == {CONTRIBUTOR, RESEARCH_LEAD}

OPEN == "OPEN"                       \* ProjectStatus
IN_PROGRESS == "IN_PROGRESS"
COMPLETED == "COMPLETED"
CANCELLED == "CANCELLED"
ProjectStatuses == {OPEN, IN_PROGRESS, COMPLETED, CANCELLED}

PENDING == "PENDING"                 \* ApplicationStatus
SHORTLISTED == "SHORTLISTED"
ACCEPTED == "ACCEPTED"
REJECTED == "REJECTED"
ApplicationStatuses == {PENDING, SHORTLISTED, ACCEPTED, REJECTED}

ERROR == "ERROR"                     \* NotificationType
WARNING == "WARNING"
SUCCESS == "SUCCESS"
INFO == "INFO"

UserIds == {"u1", "u2", "u3"}
ProjectIds == {"p1", "p2"}

\* ------------------------------------------------------------------ state
VARIABLES
    \* inputs of the component
    projectId,          \* useParams().projectId: a project id or NoProjectId
    user,               \* useAuth().user: [id, role] or Null
    addNotification,    \* identity of the useNotifications() callback
    \* useState cells
    project, applications, messages, newMessage, attachment,
    isLoading, error, isApplying, isSendingMessage, chatChannel,
    \* useMemo value of the last render
    perm,
    \* closure of the pending clean-up of the subscription effect
    cleanupChannel,
    mounted,
    \* backend
    projFetches,        \* getProjectById calls in flight, oldest first
    msgFetches,         \* history queries in flight
    rtPending,          \* realtime callbacks awaiting the sender profile
    sends,              \* handleSendMessage calls in flight
    appUpdates,         \* updateApplicationStatus calls in flight
    msUpdates,          \* updateMilestoneStatus calls in flight
    serverMsgs,         \* rows of the messages table, in creation order
    channels,           \* channels opened by the page: [pid, removed]
    \* notification sink
    notes,              \* addNotification calls of the last step
    lastOp              \* the handler or continuation the last step ran

vars == <<projectId, user, addNotification, project, applications, messages,
          newMessage, attachment, isLoading, error, isApplying,
          isSendingMessage, chatChannel, perm, cleanupChannel, mounted,
          projFetches, msgFetches, rtPending, sends, appUpdates, msUpdates,
          serverMsgs, channels, notes, lastOp>>

\* ------------------------------------------------------------------ helpers
\* Array.prototype.find: the first element satisfying the test, or undefined.
Find(arr, Test(_)) ==
    IF \E i \in 1..Len(arr) : Test(arr[i])
    THEN arr[CHOOSE i \in 1..Len(arr) :
                 Test(arr[i]) /\ \A j \in 1..(i - 1) : ~Test(arr[j])]
    ELSE Null

\* Array.prototype.map
Map(arr, F(_)) == [i \in 1..Len(arr) |-> F(arr[i])]

\* Array.prototype.some
Some(arr, Test(_)) == \E i \in 1..Len(arr) : Test(arr[i])

\* String.prototype.trim on the compose texts of the model
Trim(s) == IF s = " " THEN "" ELSE s

\* ------------------------------------------------------------------ permission derivation
NoPermissions ==
    [isOwner |-> FALSE, isAcceptedContributor |-> FALSE, hasApplied |-> FALSE,
     canApply |-> FALSE, canChat |-> FALSE, canManage |-> FALSE,
     viewerApplicationStatus |-> "undefined"]

PermissionsNoOwnerCheck(u, p, apps) ==
    IF p = Null \/ u = Null THEN NoPermissions
    ELSE LET owner == u.id = p.posted_by_user_id
             ByUserAccepted(app) == app.contributor_user_id = u.id /\ app.status = ACCEPTED
             ByUser(app) == app.contributor_user_id = u.id
             acceptedApp == Find(apps, ByUserAccepted)
             application == Find(apps, ByUser)
         IN [isOwner |-> owner,
             isAcceptedContributor |-> acceptedApp # Null,
             hasApplied |-> application # Null,
             canApply |-> u.role = CONTRIBUTOR /\ application = Null /\ p.status = OPEN,
             canChat |-> owner \/ acceptedApp # Null,
             canManage |-> owner,
             viewerApplicationStatus |->
                 IF application = Null THEN "undefined" ELSE application.status]

\* The useMemo callback over [user, project, applications].
Permissions(u, p, apps) ==
    IF p = Null \/ u = Null THEN NoPermissions
    ELSE LET owner == u.id = p.posted_by_user_id
             ByUserAccepted(app) == app.contributor_user_id = u.id /\ app.status = ACCEPTED
             ByUser(app) == app.contributor_user_id = u.id
             acceptedApp == Find(apps, ByUserAccepted)
             application == Find(apps, ByUser)
         IN [isOwner |-> owner,
             isAcceptedContributor |-> acceptedApp # Null,
             hasApplied |-> application # Null,
             canApply |-> u.role = CONTRIBUTOR /\ ~owner /\ application = Null
                          /\ p.status = OPEN,
             canChat |-> owner \/ acceptedApp # Null,
             canManage |-> owner,
             viewerApplicationStatus |->
                 IF application = Null THEN "undefined" ELSE application.status]

\* ------------------------------------------------------------------ backend data
\* posted_by_user_id of the two projects of the model
Owner(pid) == IF pid = "p1" THEN "u1" ELSE "u3"

Application(id, contributor, status) ==
    [id |-> id, contributor_user_id |-> contributor, status |-> status]

Milestone(id, status, updated) ==
    [id |-> id, status |-> status, updated_at |-> updated]

\* The rows getProjectById can return for a project: the project with its
\* milestones, and its nested applications (other sessions change those, so
\* one project has several snapshots).
ServerProjects(pid) ==
    IF pid = "p1"
    THEN { [project |-> [id |-> pid, posted_by_user_id |-> Owner(pid), status |-> st,
                         milestones |-> <<Milestone("m1", "PENDING", 0),
                                          Milestone("m2", "PENDING", 0)>>],
            applications |-> apps] :
           st \in {OPEN, IN_PROGRESS},
           apps \in {<<>>} \cup
                    { <<Application("a1", "u2", s), Application("a3", "u3", PENDING)>> :
                      s \in {PENDING, ACCEPTED} } }
    ELSE { [project |-> [id |-> pid, posted_by_user_id |-> Owner(pid), status |-> OPEN,
                         milestones |-> <<>>],
            applications |-> apps] :
           apps \in {<<>>} \cup { <<Application("a2", "u2", s)>> : s \in {PENDING, ACCEPTED} } }

\* A row of the messages table as the realtime payload and the insert return it.
Row(id, pid, sender) == [id |-> id, project_id |-> pid, sender_user_id |-> sender]

\* A message of the local list: the row and the denormalised sender profile.
WithSender(row, senderUser) ==
    [id |-> row.id, project_id |-> row.project_id,
     sender_user_id |-> row.sender_user_id, sender_user |-> senderUser]

\* select(...).eq('project_id', pid).order('created_at') over the first n rows
RECURSIVE History(_, _, _)
History(rows, n, pid) ==
    IF n = 0 THEN <<>>
    ELSE LET rest == History(rows, n - 1, pid)
         IN IF rows[n].project_id = pid
            THEN Append(rest, WithSender(rows[n], "profile"))
            ELSE rest

RemoveAt(seq, i) == SubSeq(seq, 1, i - 1) \o SubSeq(seq, i + 1, Len(seq))

\* ------------------------------------------------------------------ effects
\* The backend calls that are awaiting their response.
InFlight == Len(projFetches) + Len(msgFetches) + Cardinality(rtPending) + Len(sends)
            + Len(appUpdates) + Len(msUpdates)

ShouldSubscribeNoPresenceCheck(canChat, pid, channel) ==
    canChat /\ pid # NoProjectId

\* Condition of the subscription effect for opening a channel.
ShouldSubscribe(canChat, pid, channel) ==
    canChat /\ pid # NoProjectId /\ channel = NoChannel

\* Guard of fetchMessages.
ShouldFetchMessages(canChat, pid) == canChat /\ pid # NoProjectId

\* supabase.removeChannel(ch) for the clean-up closure's channel
RemoveChannel(chs, ch) ==
    IF ch = NoChannel THEN chs
    ELSE [chs EXCEPT ![ch].removed = IF @ < MaxRemovals THEN @ + 1 ELSE @]

ChatEffectsRunEveryRender(depsN, depsP) == TRUE

\* The dependency arrays of the two chat effects, [canChat, projectId,
\* addNotification]: the effects run when a dependency differs from the one
\* of the previous render.
ChatEffectsRun(depsN, depsP) == depsN # depsP

ErrorAtFetchStartKept(errorH) == errorH

\* setError(null) at the start of fetchProjectDetails
ErrorAtFetchStart(errorH) == NoError

\* The render that ends every event of a mounted page, and its effects:
\* the useMemo value, then the clean-ups and bodies of the effects whose
\* dependencies differ from those of the previous render.  The arguments
\* are the values the event's handler left in the cells the effects write.
Commit(isLoadingH, errorH, projFetchesH, msgFetchesH) ==
    LET permN == Permissions(user', project', applications')
        fetchRun == <<projectId', addNotification'>> # <<projectId, addNotification>>
        chatRun == ChatEffectsRun(<<permN.canChat, projectId', addNotification'>>,
                                  <<perm.canChat, projectId, addNotification>>)
        doFetch == fetchRun /\ projectId' # NoProjectId
        doMsgFetch == chatRun /\ ShouldFetchMessages(permN.canChat, projectId')
        doOpen == chatRun /\ ShouldSubscribe(permN.canChat, projectId', chatChannel)
        cleaned == IF chatRun THEN RemoveChannel(channels, cleanupChannel) ELSE channels
    IN /\ perm' = permN
       /\ isLoading' = IF doFetch THEN TRUE ELSE isLoadingH
       /\ error' = IF doFetch THEN ErrorAtFetchStart(errorH) ELSE errorH
       /\ projFetches' = IF doFetch THEN Append(projFetchesH, [pid |-> projectId'])
                         ELSE projFetchesH
       /\ msgFetches' = IF doMsgFetch
                        THEN Append(msgFetchesH, [pid |-> projectId',
                                                  minLen |-> Len(serverMsgs')])
                        ELSE msgFetchesH
       /\ channels' = IF doOpen
                      THEN Append(cleaned, [pid |-> projectId', removed |-> 0])
                      ELSE cleaned
       /\ chatChannel' = IF doOpen THEN Len(channels) + 1 ELSE chatChannel
       /\ cleanupChannel' = IF chatRun THEN chatChannel ELSE cleanupChannel
       /\ InFlight' <= MaxInflight

\* ------------------------------------------------------------------ rendering
\* The render guards: spinner, error text, "Project not found", or the page.
Loaded == mounted /\ ~isLoading /\ error = NoError /\ project # Null

\* The chat section, with the compose box, is rendered.
ChatRendered == Loaded /\ perm.canChat

\* The "Apply to this Project" button is rendered.
ApplyButtonRendered == Loaded /\ perm.canApply /\ ~isApplying

\* The "You have applied to this project" banner is rendered.
AppliedBannerRendered == Loaded /\ perm.hasApplied /\ ~perm.isOwner

\* The buttons of one application in the owner's list.
StatusButtonRendered(app, newStatus) ==
    /\ Loaded /\ perm.isOwner
    /\ app.status \in {PENDING, SHORTLISTED}
    /\ newStatus \in {ACCEPTED, SHORTLISTED, REJECTED}
    /\ newStatus = SHORTLISTED => app.status = PENDING

\* A state cell written by a continuation: setState of an unmounted
\* component does nothing.
Set(new, old) == IF mounted THEN new ELSE old

\* addNotification(message, type): the fixed text, the interpolated value, the type
Note(text, arg, type) == <<text, arg, type>>

\* Name and arguments of the last step
Op(name, a, b) == <<name, a, b>>

\* ------------------------------------------------------------------ inputs of the component
\* The route changes to another project; the page stays mounted.
Navigate(pid) ==
    /\ mounted /\ pid # projectId
    /\ lastOp' = Op("Navigate", pid, "")
    /\ projectId' = pid
    /\ notes' = <<>>
    /\ UNCHANGED <<user, addNotification, project, applications, messages, newMessage,
                   attachment, isApplying, isSendingMessage, mounted, rtPending, sends,
                   appUpdates, msUpdates, serverMsgs>>
    /\ Commit(isLoading, error, projFetches, msgFetches)

\* useNotifications() returns a callback of a new identity.
NotificationCallbackChanges ==
    /\ mounted
    /\ lastOp' = Op("NotificationCallbackChanges", "", "")
    /\ addNotification' = 1 - addNotification
    /\ notes' = <<>>
    /\ UNCHANGED <<projectId, user, project, applications, messages, newMessage,
                   attachment, isApplying, isSendingMessage, mounted, rtPending, sends,
                   appUpdates, msUpdates, serverMsgs>>
    /\ Commit(isLoading, error, projFetches, msgFetches)

\* The page is unmounted: the pending clean-up of the subscription effect runs.
Unmount ==
    /\ mounted
    /\ lastOp' = Op("Unmount", "", "")
    /\ mounted' = FALSE
    /\ channels' = RemoveChannel(channels, cleanupChannel)
    /\ notes' = <<>>
    /\ UNCHANGED <<projectId, user, addNotification, project, applications, messages,
                   newMessage, attachment, isLoading, error, isApplying,
                   isSendingMessage, chatChannel, perm, cleanupChannel, projFetches,
                   msgFetches, rtPending, sends, appUpdates, msUpdates, serverMsgs>>

\* ------------------------------------------------------------------ fetchProjectDetails
\* The continuation of fetchProjectDetails after getProjectById: outcome is
\* "error", "nodata" or a row of ServerProjects.
FetchProjectResponse(i, outcome) ==
    /\ i \in 1..Len(projFetches)
    /\ lastOp' = Op("fetchProjectDetails", projFetches[i].pid,
                    IF outcome \in {[error |-> TRUE], [nodata |-> TRUE]}
                    THEN "failed" ELSE "ok")
    /\ LET failed == outcome \in {[error |-> TRUE], [nodata |-> TRUE]}
       IN /\ project' = IF failed THEN project ELSE Set(outcome.project, project)
          /\ applications' = IF failed THEN applications
                             ELSE Set(outcome.applications, applications)
          /\ notes' = IF failed THEN <<Note("Failed to load project details.", "", ERROR)>>
                      ELSE <<>>
          /\ UNCHANGED <<projectId, user, addNotification, messages, newMessage,
                         attachment, isApplying, isSendingMessage, mounted, rtPending,
                         sends, appUpdates, msUpdates, serverMsgs>>
          /\ Commit(Set(FALSE, isLoading),
                    IF failed THEN Set("Failed to load project details.", error) ELSE error,
                    RemoveAt(projFetches, i), msgFetches)

\* ------------------------------------------------------------------ chat history
FetchMessagesResponseFatal(i, ok, n) ==
    /\ i \in 1..Len(msgFetches)
    /\ lastOp' = Op("fetchMessages", msgFetches[i].pid, IF ok THEN "ok" ELSE "failed")
    /\ n \in msgFetches[i].minLen..Len(serverMsgs)
    /\ messages' = IF ok THEN Set(History(serverMsgs, n, msgFetches[i].pid), messages)
                   ELSE Set(<<>>, messages)
    /\ notes' = IF ok THEN <<>> ELSE <<Note("Failed to load chat messages.", "", ERROR)>>
    /\ UNCHANGED <<projectId, user, addNotification, project, applications, newMessage,
                   attachment, isApplying, isSendingMessage, mounted, rtPending, sends,
                   appUpdates, msUpdates, serverMsgs>>
    /\ Commit(isLoading,
              IF ok THEN error ELSE Set("Failed to load chat messages.", error),
              projFetches, RemoveAt(msgFetches, i))

\* The continuation of fetchMessages: the query failed, or it returns the
\* project's rows among the first n rows of the table (the rows that existed
\* when the server ran the query, no earlier than the call).
FetchMessagesResponse(i, ok, n) ==
    /\ i \in 1..Len(msgFetches)
    /\ lastOp' = Op("fetchMessages", msgFetches[i].pid, IF ok THEN "ok" ELSE "failed")
    /\ n \in msgFetches[i].minLen..Len(serverMsgs)
    /\ messages' = IF ok THEN Set(History(serverMsgs, n, msgFetches[i].pid), messages)
                   ELSE messages
    /\ notes' = IF ok THEN <<>> ELSE <<Note("Failed to load chat messages.", "", WARNING)>>
    /\ UNCHANGED <<projectId, user, addNotification, project, applications, newMessage,
                   attachment, isApplying, isSendingMessage, mounted, rtPending, sends,
                   appUpdates, msUpdates, serverMsgs>>
    /\ Commit(isLoading, error, projFetches, RemoveAt(msgFetches, i))

\* ------------------------------------------------------------------ realtime
\* A channel that was opened and not removed delivers the INSERT events of
\* its filter, project_id = eq.<pid>.
Subscribed(pid) ==
    \E c \in 1..Len(channels) : channels[c].pid = pid /\ channels[c].removed = 0

\* The callback given to subscribe() is called with the status of a channel
\* the page opened: a notification is posted when the status is not
\* SUBSCRIBED and an error comes with it.
SubscribeCallback(c, status, err) ==
    /\ c \in 1..Len(channels) /\ channels[c].removed = 0
    /\ lastOp' = Op("subscribe", status, IF err THEN "err" ELSE "")
    /\ notes' = IF status # "SUBSCRIBED" /\ err
                THEN <<Note("Realtime chat connection failed.", "", WARNING)>>
                ELSE <<>>
    /\ UNCHANGED <<projectId, user, addNotification, project, applications, messages,
                   newMessage, attachment, isLoading, error, isApplying,
                   isSendingMessage, chatChannel, perm, cleanupChannel, mounted,
                   projFetches, msgFetches, rtPending, sends, appUpdates, msUpdates,
                   serverMsgs, channels>>

\* Another user of the project inserts a row into the messages table.
OtherUserInserts(pid) ==
    /\ Len(serverMsgs) < MaxMsgs
    /\ lastOp' = Op("OtherUserInserts", pid, "")
    /\ serverMsgs' = Append(serverMsgs, Row(Len(serverMsgs) + 1, pid, "u3"))
    /\ notes' = <<>>
    /\ UNCHANGED <<projectId, user, addNotification, project, applications, messages,
                   newMessage, attachment, isLoading, error, isApplying,
                   isSendingMessage, chatChannel, perm, cleanupChannel, mounted,
                   projFetches, msgFetches, rtPending, sends, appUpdates, msUpdates,
                   channels>>

\* The INSERT callback starts for row m: it asks for the sender's profile.
RealtimeInsert(m) ==
    /\ m \in 1..Len(serverMsgs)
    /\ lastOp' = Op("INSERT", serverMsgs[m].project_id, "")
    /\ Subscribed(serverMsgs[m].project_id)
    /\ m \notin rtPending
    /\ InFlight < MaxInflight
    /\ rtPending' = rtPending \cup {m}
    /\ notes' = <<>>
    /\ UNCHANGED <<projectId, user, addNotification, project, applications, messages,
                   newMessage, attachment, isLoading, error, isApplying,
                   isSendingMessage, chatChannel, perm, cleanupChannel, mounted,
                   projFetches, msgFetches, sends, appUpdates, msUpdates, serverMsgs,
                   channels>>

MergeAppendAlways(prev, fullMessage) == Append(prev, fullMessage)

\* The updater of the INSERT callback: prev => prev.some(same id) ? prev : [...prev, m]
Merge(prev, fullMessage) ==
    LET SameId(msg) == msg.id = fullMessage.id
    IN IF Some(prev, SameId) THEN prev ELSE Append(prev, fullMessage)

\* The INSERT callback continues with the profile (or without one).
RealtimeProfileResponse(m, senderData) ==
    /\ m \in rtPending
    /\ lastOp' = Op("INSERT merge", serverMsgs[m].project_id, senderData)
    /\ rtPending' = rtPending \ {m}
    /\ messages' = Set(Merge(messages, WithSender(serverMsgs[m], senderData)), messages)
    /\ notes' = <<>>
    /\ UNCHANGED <<projectId, user, addNotification, project, applications, newMessage,
                   attachment, isApplying, isSendingMessage, mounted, sends, appUpdates,
                   msUpdates, serverMsgs>>
    /\ Commit(isLoading, error, projFetches, msgFetches)

\* ------------------------------------------------------------------ compose box
SetNewMessage(text) ==
    /\ ChatRendered /\ text # newMessage
    /\ lastOp' = Op("setNewMessage", text, "")
    /\ newMessage' = text
    /\ notes' = <<>>
    /\ UNCHANGED <<projectId, user, addNotification, project, applications, messages,
                   attachment, isApplying, isSendingMessage, mounted, rtPending, sends,
                   appUpdates, msUpdates, serverMsgs>>
    /\ Commit(isLoading, error, projFetches, msgFetches)

SetAttachment(file) ==
    /\ ChatRendered /\ file # attachment
    /\ lastOp' = Op("setAttachment", file, "")
    /\ attachment' = file
    /\ notes' = <<>>
    /\ UNCHANGED <<projectId, user, addNotification, project, applications, messages,
                   newMessage, isApplying, isSendingMessage, mounted, rtPending, sends,
                   appUpdates, msUpdates, serverMsgs>>
    /\ Commit(isLoading, error, projFetches, msgFetches)

\* ------------------------------------------------------------------ handleSendMessage
SendRejectedNoTrim(pid, text, file, u) ==
    pid = NoProjectId \/ (text = "" /\ file = NoAttachment) \/ u = Null

\* The early return of handleSendMessage.
SendRejected(pid, text, file, u) ==
    pid = NoProjectId \/ (Trim(text) = "" /\ file = NoAttachment) \/ u = Null

\* handleSendMessage up to its first await (the send button, or Enter in the
\* text box): the upload when there is an attachment, else sendMessage.
HandleSendMessage ==
    /\ ChatRendered
    /\ lastOp' = Op("handleSendMessage", newMessage, attachment)
    /\ IF SendRejected(projectId, newMessage, attachment, user)
       THEN UNCHANGED <<isSendingMessage, sends>>
       ELSE /\ isSendingMessage' = TRUE
            /\ sends' = Append(sends,
                   [pid |-> projectId, text |-> Trim(newMessage), sender |-> user.id,
                    file |-> attachment,
                    stage |-> IF attachment # NoAttachment THEN "upload" ELSE "send",
                    uploaded |-> FALSE, row |-> 0])
    /\ notes' = <<>>
    /\ UNCHANGED <<projectId, user, addNotification, project, applications, messages,
                   newMessage, attachment, isApplying, mounted, rtPending, appUpdates,
                   msUpdates, serverMsgs>>
    /\ Commit(isLoading, error, projFetches, msgFetches)

UploadThrowsNever(ok) == FALSE

\* if (uploadError || !publicUrl) throw ...
UploadThrows(ok) == ~ok

\* uploadFile returns: with a public URL (ok), or with an error or no URL.
\* The handler goes on to sendMessage, or its catch and finally blocks run.
UploadResponse(i, ok) ==
    /\ i \in 1..Len(sends) /\ sends[i].stage = "upload"
    /\ lastOp' = Op("uploadFile", "", IF ok THEN "ok" ELSE "failed")
    /\ IF ~UploadThrows(ok)
       THEN /\ sends' = [sends EXCEPT ![i].stage = "send", ![i].uploaded = ok]
            /\ notes' = <<>>
            /\ UNCHANGED isSendingMessage
       ELSE /\ sends' = RemoveAt(sends, i)
            /\ notes' = <<Note("Failed to upload attachment", "", ERROR)>>
            /\ isSendingMessage' = Set(FALSE, isSendingMessage)
    /\ UNCHANGED <<projectId, user, addNotification, project, applications, messages,
                   newMessage, attachment, isApplying, mounted, rtPending, appUpdates,
                   msUpdates, serverMsgs>>
    /\ Commit(isLoading, error, projFetches, msgFetches)

\* The backend inserts the row of a sendMessage call.
ServerInsertsSent(i) ==
    /\ i \in 1..Len(sends) /\ sends[i].stage = "send"
    /\ lastOp' = Op("ServerInsertsSent", sends[i].pid, "")
    /\ Len(serverMsgs) < MaxMsgs
    /\ serverMsgs' = Append(serverMsgs,
                            Row(Len(serverMsgs) + 1, sends[i].pid, sends[i].sender))
    /\ sends' = [sends EXCEPT ![i].stage = "sent", ![i].row = Len(serverMsgs) + 1]
    /\ notes' = <<>>
    /\ UNCHANGED <<projectId, user, addNotification, project, applications, messages,
                   newMessage, attachment, isLoading, error, isApplying,
                   isSendingMessage, chatChannel, perm, cleanupChannel, mounted,
                   projFetches, msgFetches, rtPending, appUpdates, msUpdates, channels>>

SendMessageResponseNoFinally(i, outcome) ==
    /\ i \in 1..Len(sends)
    /\ lastOp' = Op("sendMessage", "", outcome)
    /\ sends[i].stage = (IF outcome = "error" THEN "send" ELSE "sent")
    /\ sends' = RemoveAt(sends, i)
    /\ messages' = IF outcome = "data"
                   THEN Set(Append(messages,
                                   WithSender(serverMsgs[sends[i].row], "undefined")),
                            messages)
                   ELSE messages
    /\ newMessage' = IF outcome = "error" THEN newMessage ELSE Set("", newMessage)
    /\ attachment' = IF outcome = "error" THEN attachment
                     ELSE Set(NoAttachment, attachment)
    /\ isSendingMessage' = IF outcome = "error" THEN isSendingMessage
                           ELSE Set(FALSE, isSendingMessage)
    /\ notes' = IF outcome = "error" THEN <<Note("Failed to send message.", "", ERROR)>>
                ELSE <<>>
    /\ UNCHANGED <<projectId, user, addNotification, project, applications, isApplying,
                   mounted, rtPending, appUpdates, msUpdates, serverMsgs>>
    /\ Commit(isLoading, error, projFetches, msgFetches)

\* sendMessage returns: "error" (nothing was inserted), "data" (the inserted
\* row) or "nodata" (inserted, no row returned).
SendMessageResponse(i, outcome) ==
    /\ i \in 1..Len(sends)
    /\ lastOp' = Op("sendMessage", "", outcome)
    /\ sends[i].stage = (IF outcome = "error" THEN "send" ELSE "sent")
    /\ sends' = RemoveAt(sends, i)
    /\ messages' = IF outcome = "data"
                   THEN Set(Append(messages,
                                   WithSender(serverMsgs[sends[i].row], "undefined")),
                            messages)
                   ELSE messages
    /\ newMessage' = IF outcome = "error" THEN newMessage ELSE Set("", newMessage)
    /\ attachment' = IF outcome = "error" THEN attachment
                     ELSE Set(NoAttachment, attachment)
    /\ isSendingMessage' = Set(FALSE, isSendingMessage)
    /\ notes' = IF outcome = "error" THEN <<Note("Failed to send message.", "", ERROR)>>
                ELSE <<>>
    /\ UNCHANGED <<projectId, user, addNotification, project, applications, isApplying,
                   mounted, rtPending, appUpdates, msUpdates, serverMsgs>>
    /\ Commit(isLoading, error, projFetches, msgFetches)

\* ------------------------------------------------------------------ handleApplicationStatusUpdate
HandleApplicationStatusUpdateNoGuard(applicationId, newStatus) ==
    /\ mounted
    /\ lastOp' = Op("handleApplicationStatusUpdate", applicationId, newStatus)
    /\ appUpdates' = Append(appUpdates, [id |-> applicationId, status |-> newStatus])
    /\ notes' = <<>>
    /\ UNCHANGED <<projectId, user, addNotification, project, applications, messages,
                   newMessage, attachment, isApplying, isSendingMessage, mounted,
                   rtPending, sends, msUpdates, serverMsgs>>
    /\ Commit(isLoading, error, projFetches, msgFetches)

\* handleApplicationStatusUpdate up to its await.
HandleApplicationStatusUpdate(applicationId, newStatus) ==
    /\ mounted
    /\ lastOp' = Op("handleApplicationStatusUpdate", applicationId, newStatus)
    /\ IF ~perm.isOwner \/ project = Null
       THEN UNCHANGED appUpdates
       ELSE appUpdates' = Append(appUpdates, [id |-> applicationId, status |-> newStatus])
    /\ notes' = <<>>
    /\ UNCHANGED <<projectId, user, addNotification, project, applications, messages,
                   newMessage, attachment, isApplying, isSendingMessage, mounted,
                   rtPending, sends, msUpdates, serverMsgs>>
    /\ Commit(isLoading, error, projFetches, msgFetches)

\* Accept, Shortlist or Reject of an application in the owner's list.
ClickStatusButton(k, newStatus) ==
    /\ k \in 1..Len(applications)
    /\ StatusButtonRendered(applications[k], newStatus)
    /\ HandleApplicationStatusUpdate(applications[k].id, newStatus)

PatchStatusAll(apps, applicationId, newStatus) ==
    LET Patch(a) == [a EXCEPT !.status = newStatus]
    IN Map(apps, Patch)

\* prev.map(a => a.id === applicationId ? { ...a, status: newStatus } : a)
PatchStatus(apps, applicationId, newStatus) ==
    LET Patch(a) == IF a.id = applicationId THEN [a EXCEPT !.status = newStatus] ELSE a
    IN Map(apps, Patch)

ProjectAfterStatusNever(prev, newStatus) == prev

\* The project after a successful status update.
ProjectAfterStatus(prev, newStatus) ==
    IF newStatus = ACCEPTED
    THEN (IF prev # Null THEN [prev EXCEPT !.status = IN_PROGRESS] ELSE Null)
    ELSE prev

StatusUpdateOutcomeNoThrow(ok, apps, proj, applicationId, newStatus) ==
    [applications |-> PatchStatus(apps, applicationId, newStatus),
     project |-> ProjectAfterStatus(proj, newStatus),
     notes |-> <<Note("Application status updated to", newStatus, SUCCESS)>>]

\* The try/catch of handleApplicationStatusUpdate after the await: the
\* notification posted and the values the state updaters produce.
StatusUpdateOutcome(ok, apps, proj, applicationId, newStatus) ==
    IF ok
    THEN [applications |-> PatchStatus(apps, applicationId, newStatus),
          project |-> ProjectAfterStatus(proj, newStatus),
          notes |-> <<Note("Application status updated to", newStatus, SUCCESS)>>]
    ELSE [applications |-> apps, project |-> proj,
          notes |-> <<Note("Failed to update application", "", ERROR)>>]

\* updateApplicationStatus returns.
ApplicationStatusResponse(i, ok) ==
    /\ i \in 1..Len(appUpdates)
    /\ lastOp' = Op("updateApplicationStatus", appUpdates[i].status,
                    IF ok THEN "ok" ELSE "failed")
    /\ appUpdates' = RemoveAt(appUpdates, i)
    /\ LET out == StatusUpdateOutcome(ok, applications, project, appUpdates[i].id,
                                      appUpdates[i].status)
       IN /\ notes' = out.notes
          /\ applications' = Set(out.applications, applications)
          /\ project' = Set(out.project, project)
    /\ UNCHANGED <<projectId, user, addNotification, messages, newMessage, attachment,
                   isApplying, isSendingMessage, mounted, rtPending, sends, msUpdates,
                   serverMsgs>>
    /\ Commit(isLoading, error, projFetches, msgFetches)

\* ------------------------------------------------------------------ handleMarkMilestoneComplete
\* handleMarkMilestoneComplete up to its await.
HandleMarkMilestoneComplete(milestoneId) ==
    /\ mounted
    /\ lastOp' = Op("handleMarkMilestoneComplete", milestoneId, "")
    /\ IF ~perm.isOwner \/ projectId = NoProjectId
       THEN UNCHANGED msUpdates
       ELSE msUpdates' = Append(msUpdates, [id |-> milestoneId, pid |-> projectId])
    /\ notes' = <<>>
    /\ UNCHANGED <<projectId, user, addNotification, project, applications, messages,
                   newMessage, attachment, isApplying, isSendingMessage, mounted,
                   rtPending, sends, appUpdates, serverMsgs>>
    /\ Commit(isLoading, error, projFetches, msgFetches)

\* onMarkComplete of a MilestoneItem: passed to the item only for the owner.
ClickMarkComplete(k) ==
    /\ Loaded /\ perm.isOwner
    /\ HandleMarkMilestoneComplete(project.milestones[k].id)

PatchMilestoneIgnoresData(prev, milestoneId, data) ==
    IF prev = Null THEN Null
    ELSE LET Patch(m) == IF m.id = milestoneId THEN [m EXCEPT !.status = COMPLETED] ELSE m
         IN [prev EXCEPT !.milestones = Map(prev.milestones, Patch)]

\* milestones.map(m => m.id === milestoneId ? (data || {...m, status: COMPLETED}) : m)
PatchMilestone(prev, milestoneId, data) ==
    IF prev = Null THEN Null
    ELSE LET Patch(m) == IF m.id = milestoneId
                         THEN (IF data # Null THEN data
                               ELSE [m EXCEPT !.status = COMPLETED])
                         ELSE m
         IN [prev EXCEPT !.milestones = Map(prev.milestones, Patch)]

\* updateMilestoneStatus returns: "error", "data" (the updated row) or "nodata".
MilestoneStatusResponse(i, outcome) ==
    /\ i \in 1..Len(msUpdates)
    /\ lastOp' = Op("updateMilestoneStatus", msUpdates[i].id, outcome)
    /\ msUpdates' = RemoveAt(msUpdates, i)
    /\ IF outcome = "error"
       THEN /\ notes' = <<Note("Failed to update milestone", "", ERROR)>>
            /\ UNCHANGED project
       ELSE /\ notes' = <<Note("Milestone marked as complete.", "", SUCCESS)>>
            /\ project' = Set(PatchMilestone(project, msUpdates[i].id,
                                  IF outcome = "data"
                                  THEN Milestone(msUpdates[i].id, COMPLETED, 1)
                                  ELSE Null), project)
    /\ UNCHANGED <<projectId, user, addNotification, applications, messages, newMessage,
                   attachment, isApplying, isSendingMessage, mounted, rtPending, sends,
                   appUpdates, serverMsgs>>
    /\ Commit(isLoading, error, projFetches, msgFetches)

\* ------------------------------------------------------------------ applying
\* "Apply to this Project": setIsApplying(true)
ClickApply ==
    /\ ApplyButtonRendered
    /\ lastOp' = Op("setIsApplying", "", "")
    /\ isApplying' = TRUE
    /\ notes' = <<>>
    /\ UNCHANGED <<projectId, user, addNotification, project, applications, messages,
                   newMessage, attachment, isSendingMessage, mounted, rtPending, sends,
                   appUpdates, msUpdates, serverMsgs>>
    /\ Commit(isLoading, error, projFetches, msgFetches)

\* The ApplicationForm is rendered with the project as its only prop.
ApplicationFormRendered == Loaded /\ isApplying /\ perm.canApply

\* The viewer's application is submitted through the form and the backend
\* stores it.  The form has no callback into the page: the page's cells are
\* not written.
SubmitApplication ==
    /\ ApplicationFormRendered
    /\ lastOp' = Op("SubmitApplication", "", "")
    /\ notes' = <<Note("Application submitted", "", SUCCESS)>>
    /\ UNCHANGED <<projectId, user, addNotification, project, applications, messages,
                   newMessage, attachment, isApplying, isSendingMessage, mounted,
                   rtPending, sends, appUpdates, msUpdates, serverMsgs>>
    /\ Commit(isLoading, error, projFetches, msgFetches)

\* ------------------------------------------------------------------ specification
Viewers == {Null, [id |-> "u1", role |-> RESEARCH_LEAD], [id |-> "u2", role |-> CONTRIBUTOR]}
ComposeTexts == {"", " ", "hi"}
Files == {NoAttachment, "file"}
SubscribeStatuses == {"SUBSCRIBED", "CHANNEL_ERROR"}

\* The page after its first render and the effects of the mount: the project
\* fetch is in flight when the route has a project id.
Init ==
    /\ projectId \in ProjectIds \cup {NoProjectId}
    /\ user \in Viewers
    /\ addNotification = 0
    /\ project = Null
    /\ applications = <<>>
    /\ messages = <<>>
    /\ newMessage = ""
    /\ attachment = NoAttachment
    /\ isLoading = TRUE
    /\ error = NoError
    /\ isApplying \in BOOLEAN
    /\ isSendingMessage = FALSE
    /\ chatChannel = NoChannel
    /\ perm = Permissions(user, project, applications)
    /\ cleanupChannel = NoChannel
    /\ mounted = TRUE
    /\ projFetches = IF projectId # NoProjectId THEN <<[pid |-> projectId]>> ELSE <<>>
    /\ msgFetches = <<>>
    /\ rtPending = {}
    /\ sends = <<>>
    /\ appUpdates = <<>>
    /\ msUpdates = <<>>
    /\ serverMsgs = <<>>
    /\ channels = <<>>
    /\ notes = <<>>
    /\ lastOp = Op("mount", "", "")

Next ==
    \/ \E pid \in ProjectIds : Navigate(pid)
    \/ NotificationCallbackChanges
    \/ Unmount
    \/ \E i \in 1..Len(projFetches) :
         \E outcome \in {[error |-> TRUE], [nodata |-> TRUE]}
                        \cup ServerProjects(projFetches[i].pid) :
            FetchProjectResponse(i, outcome)
    \/ \E i \in 1..Len(msgFetches), ok \in BOOLEAN, n \in 0..MaxMsgs :
         FetchMessagesResponse(i, ok, n)
    \/ \E c \in 1..Len(channels), status \in SubscribeStatuses, err \in BOOLEAN :
         SubscribeCallback(c, status, err)
    \/ \E pid \in ProjectIds : OtherUserInserts(pid)
    \/ \E m \in 1..Len(serverMsgs) : RealtimeInsert(m)
    \/ \E m \in rtPending, senderData \in {"profile", "undefined"} :
         RealtimeProfileResponse(m, senderData)
    \/ \E text \in ComposeTexts : SetNewMessage(text)
    \/ \E file \in Files : SetAttachment(file)
    \/ HandleSendMessage
    \/ \E i \in 1..Len(sends), ok \in BOOLEAN : UploadResponse(i, ok)
    \/ \E i \in 1..Len(sends) : ServerInsertsSent(i)
    \/ \E i \in 1..Len(sends), outcome \in {"error", "data", "nodata"} :
         SendMessageResponse(i, outcome)
    \/ \E k \in 1..Len(applications), newStatus \in ApplicationStatuses : ClickStatusButton(k, newStatus)
    \/ \E i \in 1..Len(appUpdates), ok \in BOOLEAN : ApplicationStatusResponse(i, ok)
    \/ \E k \in 1..(IF project = Null THEN 0 ELSE Len(project.milestones)) :
         ClickMarkComplete(k)
    \/ \E i \in 1..Len(msUpdates), outcome \in {"error", "data", "nodata"} :
         MilestoneStatusResponse(i, outcome)
    \/ ClickApply
    \/ SubmitApplication

\* Every event the page can see.  The specifications below keep the actions
\* of Next and restrict the environment (which viewer is signed in, which
\* gestures and backend events occur), so that each can be explored in full.
Spec == Init /\ [][Next]_vars

U1 == [id |-> "u1", role |-> RESEARCH_LEAD]     \* the owner of p1
U2 == [id |-> "u2", role |-> CONTRIBUTOR]       \* an applicant

FetchProjectResponses ==
    \E i \in 1..Len(projFetches) :
      \E outcome \in {[error |-> TRUE], [nodata |-> TRUE]}
                     \cup ServerProjects(projFetches[i].pid) :
         FetchProjectResponse(i, outcome)

FetchMessagesResponses ==
    \E i \in 1..Len(msgFetches), ok \in BOOLEAN, n \in 0..MaxMsgs :
      FetchMessagesResponse(i, ok, n)

\* ------------------------------------------------------------------ SpecPerm
\* The permission derivation over all its inputs: the page of a route without
\* project id (so that nothing is fetched), whose user, project and
\* application list are set to arbitrary values; every change re-renders and
\* recomputes the useMemo value.
PermUsers == {Null} \cup [id : {"u1", "u2"}, role : UserRoles]
PermProjects ==
    {Null} \cup [id : {"p1"}, posted_by_user_id : {"u1", "u2"}, status : ProjectStatuses,
                 milestones : {<<>>}]
PermAppIds == <<"a1", "a2", "a3", "a4">>
PermApplications ==
    UNION { { [i \in 1..n |-> Application(PermAppIds[i], f[i][1], f[i][2])] :
              f \in [1..n -> {"u1", "u2"} \X ApplicationStatuses] } : n \in 0..MaxApps }

InitPerm ==
    /\ projectId = NoProjectId
    /\ user \in PermUsers
    /\ addNotification = 0
    /\ project \in PermProjects
    /\ applications \in PermApplications
    /\ messages = <<>>
    /\ newMessage = ""
    /\ attachment = NoAttachment
    /\ isLoading = TRUE
    /\ error = NoError
    /\ isApplying = FALSE
    /\ isSendingMessage = FALSE
    /\ chatChannel = NoChannel
    /\ perm = Permissions(user, project, applications)
    /\ cleanupChannel = NoChannel
    /\ mounted = TRUE
    /\ projFetches = <<>>
    /\ msgFetches = <<>>
    /\ rtPending = {}
    /\ sends = <<>>
    /\ appUpdates = <<>>
    /\ msUpdates = <<>>
    /\ serverMsgs = <<>>
    /\ channels = <<>>
    /\ notes = <<>>
    /\ lastOp = Op("mount", "", "")

\* A dependency of the useMemo changes: the render recomputes its value.
PermRerender(u, p, apps) ==
    /\ user' = u
    /\ lastOp' = Op("render", "", "")
    /\ project' = p
    /\ applications' = apps
    /\ perm' = Permissions(u, p, apps)
    /\ UNCHANGED <<projectId, addNotification, messages, newMessage, attachment,
                   isLoading, error, isApplying, isSendingMessage, chatChannel,
                   cleanupChannel, mounted, projFetches, msgFetches, rtPending, sends,
                   appUpdates, msUpdates, serverMsgs, channels, notes>>

PermUserChanges(u) == u # user /\ PermRerender(u, project, applications)

PermProjectChanges(p) == p # project /\ PermRerender(user, p, applications)

PermApplicationAdded(contributor, status) ==
    /\ Len(applications) < MaxApps
    /\ PermRerender(user, project,
                    Append(applications,
                           Application(PermAppIds[Len(applications) + 1], contributor,
                                       status)))

PermApplicationRemoved ==
    /\ applications # <<>>
    /\ PermRerender(user, project, SubSeq(applications, 1, Len(applications) - 1))

NextPerm ==
    \/ \E u \in PermUsers : PermUserChanges(u)
    \/ \E p \in PermProjects : PermProjectChanges(p)
    \/ \E c \in {"u1", "u2"}, st \in ApplicationStatuses : PermApplicationAdded(c, st)
    \/ PermApplicationRemoved

SpecPerm == InitPerm /\ [][NextPerm]_vars

\* C1: for every user (or none), project (or none) and application list,
\* canApply is true exactly when the user's role is contributor, the user is
\* not the project's owner, no application of the list is the user's, and the
\* project is OPEN; without a user or a project it is false.
CanApplyIff ==
    perm.canApply <=>
        /\ user # Null /\ project # Null
        /\ user.role = CONTRIBUTOR
        /\ user.id # project.posted_by_user_id
        /\ \A i \in 1..Len(applications) : applications[i].contributor_user_id # user.id
        /\ project.status = OPEN

\* After a re-render: a contributor who may apply while others have applied.
CanApplyWitness ==
    /\ lastOp = Op("render", "", "")
    /\ perm.canApply
    /\ Len(applications) = 2
    /\ user.role = CONTRIBUTOR /\ project.status = OPEN


\* ------------------------------------------------------------------ SpecLife
\* The life cycle of the page: route changes, changes of the notification
\* callback, unmount, and the responses of the fetches; nobody clicks and no
\* chat row is inserted.
NextLife ==
    \/ \E pid \in ProjectIds : Navigate(pid)
    \/ NotificationCallbackChanges
    \/ Unmount
    \/ FetchProjectResponses
    \/ FetchMessagesResponses

SpecLife == Init /\ [][NextLife]_vars

\* The (projectId, chat permission) key for which channel c was opened is lost:
\* another project is shown, the viewer may not chat, or the page is unmounted.
KeyLost(c) == ~mounted \/ projectId # channels[c].pid \/ ~perm.canChat

\* C6: every channel the page opened is passed to removeChannel exactly once,
\* when its project identifier or chat permission changes or the page is
\* unmounted: never twice, and not zero times once the key is lost.
ChannelReleasedExactlyOnce ==
    \A c \in 1..Len(channels) :
       /\ channels[c].removed <= 1
       /\ KeyLost(c) => channels[c].removed = 1

\* C7: the page never holds more than one open, unreleased channel, whatever
\* re-renders, callback-identity, permission and project changes occur; and
\* no second channel is opened for a (projectId, permission) key.
AtMostOneOpenChannel ==
    /\ Cardinality({c \in 1..Len(channels) : channels[c].removed = 0}) <= 1
    /\ \A c, d \in 1..Len(channels) : channels[c].pid = channels[d].pid => c = d

\* A channel is open after the callback changed identity and the route
\* changed to another project.
OpenChannelAfterChangesWitness ==
    /\ mounted /\ Len(channels) = 1 /\ channels[1].removed = 0
    /\ chatChannel = 1 /\ cleanupChannel = 1
    /\ addNotification = 1 /\ projectId # channels[1].pid /\ perm.canChat


\* The three top-level states of the page, as the render guards tell them
\* apart: the spinner, the error text, the page itself.
LoadingState == isLoading
FatalErrorState == error # NoError
LoadedState == ~isLoading /\ error = NoError /\ project # Null

\* C11: in every reachable state the page is in exactly one of the states
\* loading, fatal-error and loaded: the loading flag and the error are never
\* set together, and a page that is neither loading nor in error has its
\* project.
PageStatesExclusive ==
    /\ ~(LoadingState /\ FatalErrorState)
    /\ ~(LoadingState /\ LoadedState)
    /\ ~(FatalErrorState /\ LoadedState)
    /\ LoadingState \/ FatalErrorState \/ LoadedState

\* A re-fetch of a loaded page has failed: the project of the earlier fetch is
\* still held, and the page is in the fatal-error state and in no other.
ErrorOverProjectWitness ==
    /\ lastOp = Op("fetchProjectDetails", "p1", "failed")
    /\ mounted /\ project # Null /\ projFetches = <<>>
    /\ FatalErrorState /\ ~LoadingState /\ ~LoadedState


\* C20: whenever the page holds the project of the current route and the
\* viewer may chat on it (the effects of the last render have run), a channel
\* of that project is open, and no channel of another project is.
SubscribedToCurrentProject ==
    (mounted /\ project # Null /\ project.id = projectId /\ perm.canChat)
    => /\ \E c \in 1..Len(channels) :
            channels[c].pid = projectId /\ channels[c].removed = 0
       /\ \A c \in 1..Len(channels) :
            channels[c].removed = 0 => channels[c].pid = projectId

\* C21: once every project fetch that was issued has completed, the page
\* reflects the most recently issued one.  That fetch asked for the project
\* of the current route (a fetch is issued whenever the route's project id
\* changes), so the page is then not loading and either in fatal-error or
\* loaded with the project of the current route, in whatever order
\* overlapping fetches complete.
ReflectsLatestFetch ==
    (mounted /\ projectId # NoProjectId /\ projFetches = <<>>)
    => /\ ~LoadingState
       /\ FatalErrorState \/ (LoadedState /\ project.id = projectId)

\* ------------------------------------------------------------------ SpecStatus
\* The owner of p1 manages the applications: the route starts at p1 and may
\* change, the owner clicks Accept, Shortlist and Reject, and the backend
\* answers.  No chat row is inserted and no milestone is touched.
InitStatus == Init /\ user = U1 /\ projectId = "p1" /\ isApplying = FALSE

NextStatus ==
    \/ \E pid \in ProjectIds : Navigate(pid)
    \/ NotificationCallbackChanges
    \/ FetchProjectResponses
    \/ FetchMessagesResponses
    \/ \E k \in 1..Len(applications), newStatus \in ApplicationStatuses :
         ClickStatusButton(k, newStatus)
    \/ \E i \in 1..Len(appUpdates), ok \in BOOLEAN : ApplicationStatusResponse(i, ok)

SpecStatus == InitStatus /\ [][NextStatus]_vars

\* C2: when updateApplicationStatus(applicationId, ACCEPTED) succeeds, the
\* local project status becomes IN_PROGRESS and the application of that id in
\* the local list has status ACCEPTED, and no getProjectById call is issued.
AcceptSetsInProgress ==
    [][\A i \in 1..Len(appUpdates) :
         (mounted /\ appUpdates[i].status = ACCEPTED /\ ApplicationStatusResponse(i, TRUE))
         => /\ project' # Null /\ project'.status = IN_PROGRESS
            /\ Len(applications') = Len(applications)
            /\ \A k \in 1..Len(applications) :
                 applications[k].id = appUpdates[i].id
                 => applications'[k].status = ACCEPTED
            /\ projFetches' = projFetches]_vars

\* The owner has accepted the PENDING application a3 of an OPEN project: it is
\* ACCEPTED and the project IN_PROGRESS, with no fetch in flight.
AcceptedWitness ==
    /\ lastOp = Op("updateApplicationStatus", ACCEPTED, "ok")
    /\ Loaded /\ project.id = "p1" /\ project.status = IN_PROGRESS
    /\ Len(applications) = 2
    /\ applications[1].status = PENDING /\ applications[2].status = ACCEPTED
    /\ projFetches = <<>>

\* C9: when updateApplicationStatus fails, one error notification is posted
\* and the application list and the project are what they were before the
\* call, whatever status was requested: neither the handler up to the call
\* nor its continuation after the failure writes them.
StatusFailureKeepsState ==
    [][/\ \A i \in 1..Len(appUpdates) :
            ApplicationStatusResponse(i, FALSE)
            => /\ notes' = <<Note("Failed to update application", "", ERROR)>>
               /\ applications' = applications
               /\ project' = project
       /\ \A k \in 1..Len(applications), newStatus \in ApplicationStatuses :
            ClickStatusButton(k, newStatus)
            => /\ notes' = <<>>
               /\ applications' = applications
               /\ project' = project]_vars

\* A request for ACCEPTED has failed: the project is still OPEN and both
\* applications still PENDING.
StatusFailureWitness ==
    /\ lastOp = Op("updateApplicationStatus", ACCEPTED, "failed")
    /\ Loaded /\ project.status = OPEN
    /\ Len(applications) = 2
    /\ applications[1].status = PENDING /\ applications[2].status = PENDING
    /\ notes = <<Note("Failed to update application", "", ERROR)>>


\* C14: a successful status update gives the application of the given id the
\* new status and changes nothing else of it; every other application, the
\* order and the length of the list are unchanged, and the project is
\* unchanged unless the new status is ACCEPTED.
StatusPatchesOneApplication ==
    [][\A i \in 1..Len(appUpdates) :
         (mounted /\ ApplicationStatusResponse(i, TRUE))
         => /\ Len(applications') = Len(applications)
            /\ \A k \in 1..Len(applications) :
                 applications'[k] =
                     IF applications[k].id = appUpdates[i].id
                     THEN [applications[k] EXCEPT !.status = appUpdates[i].status]
                     ELSE applications[k]
            /\ appUpdates[i].status # ACCEPTED => project' = project]_vars

\* The owner has rejected a3, the second application of the list: the first
\* is still PENDING and the project still OPEN.
RejectedOneWitness ==
    /\ lastOp = Op("updateApplicationStatus", REJECTED, "ok")
    /\ Loaded /\ project.status = OPEN
    /\ Len(applications) = 2
    /\ applications[1] = Application("a1", "u2", PENDING)
    /\ applications[2] = Application("a3", "u3", REJECTED)


\* The status buttons are offered for PENDING and SHORTLISTED applications
\* only, and Shortlist for PENDING only.
StatusChangesOffered ==
    \A k \in 1..Len(applications), newStatus \in ApplicationStatuses :
        ClickStatusButton(k, newStatus)
        => /\ applications[k].status \in {PENDING, SHORTLISTED}
           /\ newStatus = SHORTLISTED => applications[k].status = PENDING

\* A status-update response leaves every application that is locally ACCEPTED
\* or REJECTED with the status it has.
FinalStatusKept ==
    \A i \in 1..Len(appUpdates), ok \in BOOLEAN :
        (mounted /\ ApplicationStatusResponse(i, ok))
        => /\ Len(applications') = Len(applications)
           /\ \A k \in 1..Len(applications) :
                applications[k].status \in {ACCEPTED, REJECTED}
                => applications'[k].status = applications[k].status

\* A status-update response that writes IN_PROGRESS into the project leaves
\* some application of the list ACCEPTED.
InProgressHasAccepted ==
    \A i \in 1..Len(appUpdates) :
        (mounted /\ project # Null /\ appUpdates[i].status = ACCEPTED
                 /\ ApplicationStatusResponse(i, TRUE))
        => \E k \in 1..Len(applications') : applications'[k].status = ACCEPTED

\* C22: status changes are offered only for PENDING and SHORTLISTED
\* applications (Shortlist only for PENDING), so an application that is locally
\* ACCEPTED or REJECTED keeps that status through every status-update
\* response, and the page writes IN_PROGRESS into the project only when some
\* application of the list is then ACCEPTED, however the owner's clicks and
\* the responses interleave.
FinalStatusesAreFinal ==
    [][StatusChangesOffered /\ FinalStatusKept /\ InProgressHasAccepted]_vars


\* ------------------------------------------------------------------ SpecHandlers
\* The two owner-only handlers called as functions, whatever the page renders
\* and whoever the viewer is (the owner of p1, an applicant, or nobody), on
\* the applications and milestones the page holds.  The status requested is
\* ACCEPTED, the one that also writes the project.
CallHandleApplicationStatusUpdate(k, newStatus) ==
    /\ k \in 1..Len(applications)
    /\ HandleApplicationStatusUpdate(applications[k].id, newStatus)

CallHandleMarkMilestoneComplete(k) ==
    /\ project # Null
    /\ k \in 1..Len(project.milestones)
    /\ HandleMarkMilestoneComplete(project.milestones[k].id)

InitHandlers == Init /\ projectId = "p1" /\ isApplying = FALSE

NextHandlers ==
    \/ \E pid \in ProjectIds : Navigate(pid)
    \/ FetchProjectResponses
    \/ FetchMessagesResponses
    \/ \E k \in 1..Len(applications) : CallHandleApplicationStatusUpdate(k, ACCEPTED)
    \/ \E i \in 1..Len(appUpdates), ok \in BOOLEAN : ApplicationStatusResponse(i, ok)
    \/ \E k \in 1..(IF project = Null THEN 0 ELSE Len(project.milestones)) :
         CallHandleMarkMilestoneComplete(k)
    \/ \E i \in 1..Len(msUpdates), outcome \in {"error", "data", "nodata"} :
         MilestoneStatusResponse(i, outcome)

SpecHandlers == InitHandlers /\ [][NextHandlers]_vars

\* The current viewer is the owner of the project the page holds.
ViewerIsOwner == user # Null /\ project # Null /\ user.id = project.posted_by_user_id

Milestones(p) == IF p = Null THEN <<>> ELSE p.milestones

\* C10: while the viewer is not the owner of the loaded project (or no
\* project is loaded), no step issues updateApplicationStatus or
\* updateMilestoneStatus, and no step of the handlers or of their
\* continuations changes the local applications or milestones.
OwnerInitiatedOnly ==
    [][~ViewerIsOwner
       => /\ Len(appUpdates') <= Len(appUpdates)
          /\ Len(msUpdates') <= Len(msUpdates)
          /\ lastOp'[1] \in {"handleApplicationStatusUpdate", "updateApplicationStatus",
                             "handleMarkMilestoneComplete", "updateMilestoneStatus"}
             => /\ applications' = applications
                /\ Milestones(project') = Milestones(project)]_vars

\* An applicant has called the status handler on the page of p1, which holds
\* applications and milestones: nothing was issued.
NonOwnerCallWitness ==
    /\ lastOp = Op("handleApplicationStatusUpdate", "a1", ACCEPTED)
    /\ user = U2 /\ Loaded /\ ~ViewerIsOwner
    /\ Len(applications) = 2 /\ Len(project.milestones) = 2
    /\ appUpdates = <<>> /\ msUpdates = <<>>


\* C16: when updateMilestoneStatus succeeds, the milestone of the given id
\* becomes the record the server returned or, when it returned none, the same
\* milestone with status COMPLETED, and every other milestone and every other
\* field of the project is unchanged; when it fails, an error notification is
\* posted and the project is unchanged.
MilestonePatchesOne ==
    [][\A i \in 1..Len(msUpdates) :
         /\ \A outcome \in {"data", "nodata"} :
              (mounted /\ project # Null /\ MilestoneStatusResponse(i, outcome))
              => project' =
                   [project EXCEPT !.milestones =
                      [k \in 1..Len(project.milestones) |->
                         IF project.milestones[k].id # msUpdates[i].id
                         THEN project.milestones[k]
                         ELSE IF outcome = "data"
                              THEN Milestone(msUpdates[i].id, COMPLETED, 1)
                              ELSE [project.milestones[k] EXCEPT !.status = COMPLETED]]]
         /\ MilestoneStatusResponse(i, "error")
            => /\ project' = project
               /\ notes' = <<Note("Failed to update milestone", "", ERROR)>>]_vars

\* The owner completed m1 and the server returned no record: m1 is the
\* milestone the page held, now COMPLETED, and m2 is as it was.
MilestoneFallbackWitness ==
    /\ lastOp = Op("updateMilestoneStatus", "m1", "nodata")
    /\ Loaded /\ ViewerIsOwner
    /\ project.milestones = <<Milestone("m1", COMPLETED, 0), Milestone("m2", "PENDING", 0)>>


\* ------------------------------------------------------------------ SpecApply
\* A contributor looks at p1, opened at /projects/p1 or at /projects/p1/apply,
\* and applies through the form.
InitApply == Init /\ user = U2 /\ projectId = "p1"

NextApply ==
    \/ \E pid \in ProjectIds : Navigate(pid)
    \/ NotificationCallbackChanges
    \/ FetchProjectResponses
    \/ FetchMessagesResponses
    \/ ClickApply
    \/ SubmitApplication

SpecApply == InitApply /\ [][NextApply]_vars

InitRealtime == Init /\ user \in {U1, U2} /\ projectId = "p1" /\ isApplying = FALSE

NextRealtime ==
    \/ \E pid \in ProjectIds : Navigate(pid)
    \/ FetchProjectResponses
    \/ FetchMessagesResponses
    \/ \E pid \in ProjectIds : OtherUserInserts(pid)
    \/ \E m \in 1..Len(serverMsgs) : RealtimeInsert(m)
    \/ \E m \in rtPending, senderData \in {"profile", "undefined"} :
         RealtimeProfileResponse(m, senderData)

SpecRealtime == InitRealtime /\ [][NextRealtime]_vars

\* C3: when the INSERT callback merges a message whose id is already in the
\* local list, the list stays exactly as it was, elements and order, however
\* often the event is delivered.
MergeIdempotent ==
    [][\A m \in rtPending, senderData \in {"profile", "undefined"} :
         (RealtimeProfileResponse(m, senderData)
            /\ \E k \in 1..Len(messages) : messages[k].id = m)
         => messages' = messages]_vars

\* The only row of the table is in the list with the profile the history
\* query joined; its event was merged without a profile and changed nothing.
MergeNoOpWitness ==
    /\ lastOp = Op("INSERT merge", "p1", "undefined")
    /\ Len(serverMsgs) = 1
    /\ messages = <<WithSender(serverMsgs[1], "profile")>>

\* C12: when the history query fails on a loaded page, the page stays
\* loaded: the error, the loading flag, the project, the applications and the
\* message list are what they were, and the one notification posted is a
\* warning.
HistoryFailureDegrades ==
    [][\A i \in 1..Len(msgFetches), n \in 0..MaxMsgs :
         FetchMessagesResponse(i, FALSE, n)
         => /\ error' = error /\ isLoading' = isLoading
            /\ project' = project /\ applications' = applications
            /\ messages' = messages
            /\ Loaded => Loaded'
            /\ notes' = <<Note("Failed to load chat messages.", "", WARNING)>>]_vars

\* The history query of the loaded page failed after a realtime event had
\* been merged: the message is still listed and the page is still loaded.
HistoryFailureWitness ==
    /\ lastOp = Op("fetchMessages", "p1", "failed")
    /\ Loaded /\ projectId = "p1" /\ Len(messages) = 1
    /\ notes = <<Note("Failed to load chat messages.", "", WARNING)>>

\* C19: while the same project stays open with chat permitted, a message of
\* that project which a realtime event or a send response appended (it has no
\* joined profile, so no history response brought it) is in the list after
\* every step, in particular after a history response.
AppendedMessagesStay ==
    [][(mounted /\ projectId' = projectId /\ perm.canChat /\ perm'.canChat)
       => \A k \in 1..Len(messages) :
            (messages[k].project_id = projectId /\ messages[k].sender_user = "undefined")
            => \E j \in 1..Len(messages') : messages'[j].id = messages[k].id]_vars

\* ------------------------------------------------------------------ SpecChat
\* The chat of the owner of p1 or of an applicant while the permission and
\* the lists change: route changes, a new identity of the notification
\* callback, the owner accepting applications, rows inserted by another user
\* of p1 and delivered by the channel, and the responses of the fetches.
NextChat ==
    \/ \E pid \in ProjectIds : Navigate(pid)
    \/ NotificationCallbackChanges
    \/ FetchProjectResponses
    \/ FetchMessagesResponses
    \/ OtherUserInserts("p1")
    \/ \E m \in 1..Len(serverMsgs) : RealtimeInsert(m)
    \/ \E m \in rtPending : RealtimeProfileResponse(m, "profile")
    \/ \E k \in 1..Len(applications) : ClickStatusButton(k, ACCEPTED)
    \/ \E i \in 1..Len(appUpdates), ok \in BOOLEAN : ApplicationStatusResponse(i, ok)

SpecChat == InitRealtime /\ [][NextChat]_vars

\* The history queries a step issues and the channels it opens.
HistoryIssued ==
    Len(msgFetches') - Len(msgFetches) + (IF lastOp'[1] = "fetchMessages" THEN 1 ELSE 0)
ChannelsOpened == Len(channels') - Len(channels)

InitSend == Init /\ user = U1 /\ projectId = "p1" /\ isApplying = FALSE

NextSend ==
    \/ FetchProjectResponses
    \/ FetchMessagesResponses
    \/ \E text \in ComposeTexts : SetNewMessage(text)
    \/ \E file \in Files : SetAttachment(file)
    \/ HandleSendMessage
    \/ \E i \in 1..Len(sends), ok \in BOOLEAN : UploadResponse(i, ok)
    \/ \E i \in 1..Len(sends) : ServerInsertsSent(i)
    \/ \E i \in 1..Len(sends), outcome \in {"error", "data", "nodata"} :
         SendMessageResponse(i, outcome)

SpecSend == InitSend /\ [][NextSend]_vars

\* C4: a send with empty or whitespace-only text and no attachment calls
\* neither uploadFile nor sendMessage and leaves the messages, the compose
\* fields and the sending flag as they were.
EmptySendRejected ==
    [][(HandleSendMessage /\ Trim(newMessage) = "" /\ attachment = NoAttachment)
       => /\ sends' = sends
          /\ serverMsgs' = serverMsgs
          /\ messages' = messages
          /\ newMessage' = newMessage
          /\ attachment' = attachment
          /\ isSendingMessage' = isSendingMessage
          /\ notes' = <<>>]_vars

\* Enter was pressed on a whitespace-only text without attachment: nothing
\* is in flight and the sending flag is off.
EmptySendWitness ==
    /\ lastOp = Op("handleSendMessage", " ", NoAttachment)
    /\ newMessage = " " /\ attachment = NoAttachment
    /\ sends = <<>> /\ ~isSendingMessage

\* C5: a send with an attachment reaches sendMessage only after its upload
\* succeeded; when the upload fails, sendMessage is not called for it, no
\* message is appended, the compose text and the attachment are kept and an
\* error notification is posted.
UploadFirstAndFailureAborts ==
    [][/\ \A i \in 1..Len(sends') :
            (sends'[i].file # NoAttachment /\ sends'[i].stage \in {"send", "sent"})
            => sends'[i].uploaded
       /\ \A i \in 1..Len(sends) :
            UploadResponse(i, FALSE)
            => /\ sends' = RemoveAt(sends, i)
               /\ serverMsgs' = serverMsgs
               /\ messages' = messages
               /\ newMessage' = newMessage
               /\ attachment' = attachment
               /\ notes' = <<Note("Failed to upload attachment", "", ERROR)>>]_vars

\* The upload of the only send failed: text and attachment are still in the
\* compose box, no row was inserted and the list is empty.
UploadFailureWitness ==
    /\ lastOp = Op("uploadFile", "", "failed")
    /\ newMessage = "hi" /\ attachment = "file"
    /\ sends = <<>> /\ serverMsgs = <<>> /\ messages = <<>>
    /\ notes = <<Note("Failed to upload attachment", "", ERROR)>>

\* C15: when sendMessage succeeds and returns the row, the row is appended
\* at the end of the message list and the compose text and attachment are
\* cleared; when a send attempt ends, by the response of sendMessage or by a
\* failed upload, the sending flag is false.
SendAppendsAndClears ==
    [][\A i \in 1..Len(sends) :
         /\ (mounted /\ SendMessageResponse(i, "data"))
            => /\ messages' = Append(messages,
                                     WithSender(serverMsgs[sends[i].row], "undefined"))
               /\ newMessage' = "" /\ attachment' = NoAttachment
         /\ (mounted /\ (\/ UploadResponse(i, FALSE)
                          \/ \E outcome \in {"error", "data", "nodata"} :
                               SendMessageResponse(i, outcome)))
            => ~isSendingMessage']_vars

\* The second message of the owner was sent: both rows are in the list in the
\* order of their responses and the compose box is empty.
SecondSendWitness ==
    /\ lastOp = Op("sendMessage", "", "data")
    /\ messages = <<WithSender(Row(1, "p1", "u1"), "undefined"),
                    WithSender(Row(2, "p1", "u1"), "undefined")>>
    /\ newMessage = "" /\ attachment = NoAttachment /\ ~isSendingMessage

\* ------------------------------------------------------------------ SpecEcho
\* The owner of p1 writes in the chat and the channel delivers the events of
\* the owner's own rows: the send and its response, the insert, its event
\* and the profile query, and the history query of the page.
NextEcho ==
    \/ FetchProjectResponses
    \/ FetchMessagesResponses
    \/ SetNewMessage("hi")
    \/ HandleSendMessage
    \/ \E i \in 1..Len(sends) : ServerInsertsSent(i)
    \/ \E i \in 1..Len(sends), outcome \in {"error", "data", "nodata"} :
         SendMessageResponse(i, outcome)
    \/ \E m \in 1..Len(serverMsgs) : RealtimeInsert(m)
    \/ \E m \in rtPending, senderData \in {"profile", "undefined"} :
         RealtimeProfileResponse(m, senderData)

SpecEcho == InitSend /\ [][NextEcho]_vars

\* C18: the message list never holds two messages of the same id, however
\* the history response, the realtime events (the one of the viewer's own
\* row included) and the responses of sendMessage interleave.
NoDuplicateMessageIds ==
    \A i, j \in 1..Len(messages) : messages[i].id = messages[j].id => i = j

\* ------------------------------------------------------------------ SpecFailures
\* The owner of p1 on the page of p1 with every backend interaction of the
\* page: the fetches, the channel and the events of the owner's own rows, a
\* send with an attachment, the rejection of the first application and the
\* completion of the first milestone, each of which can fail.
InitFailures == Init /\ user = U1 /\ projectId = "p1" /\ isApplying = FALSE

\* The snapshot of p1 the backend holds during the session.
FailuresSnapshot ==
    {sp \in ServerProjects("p1") :
       /\ sp.project.status = OPEN
       /\ Len(sp.applications) = 2 /\ sp.applications[1].status = PENDING}

NextFailures ==
    \/ \E i \in 1..Len(projFetches) :
         \E outcome \in {[error |-> TRUE], [nodata |-> TRUE]} \cup FailuresSnapshot :
            FetchProjectResponse(i, outcome)
    \/ FetchMessagesResponses
    \/ \E c \in 1..Len(channels), status \in SubscribeStatuses, err \in BOOLEAN :
         SubscribeCallback(c, status, err)
    \/ \E m \in 1..Len(serverMsgs) : RealtimeInsert(m)
    \/ \E m \in rtPending, senderData \in {"profile", "undefined"} :
         RealtimeProfileResponse(m, senderData)
    \/ SetAttachment("file")
    \/ HandleSendMessage
    \/ \E i \in 1..Len(sends), ok \in BOOLEAN : UploadResponse(i, ok)
    \/ \E i \in 1..Len(sends) : ServerInsertsSent(i)
    \/ \E i \in 1..Len(sends), outcome \in {"error", "data"} :
         SendMessageResponse(i, outcome)
    \/ ClickStatusButton(1, REJECTED)
    \/ \E i \in 1..Len(appUpdates), ok \in BOOLEAN : ApplicationStatusResponse(i, ok)
    \/ ClickMarkComplete(1)
    \/ \E i \in 1..Len(msUpdates), outcome \in {"error", "data"} :
         MilestoneStatusResponse(i, outcome)

SpecFailures == InitFailures /\ [][NextFailures]_vars

\* C13: every failed backend interaction (project fetch, history query,
\* sender-profile query of a realtime event, subscription error, upload, send,
\* application status update, milestone update) posts exactly one
\* notification, and the step that handles the failure issues no call of
\* that kind again.
NoRetryOneReport ==
    [][/\ \A i \in 1..Len(projFetches), outcome \in {[error |-> TRUE], [nodata |-> TRUE]} :
            FetchProjectResponse(i, outcome)
            => Len(notes') = 1 /\ projFetches' = RemoveAt(projFetches, i)
       /\ \A i \in 1..Len(msgFetches), n \in 0..MaxMsgs :
            FetchMessagesResponse(i, FALSE, n)
            => Len(notes') = 1 /\ msgFetches' = RemoveAt(msgFetches, i)
       /\ \A m \in rtPending :
            RealtimeProfileResponse(m, "undefined")
            => Len(notes') = 1 /\ rtPending' = rtPending \ {m}
       /\ \A c \in 1..Len(channels) :
            SubscribeCallback(c, "CHANNEL_ERROR", TRUE)
            => Len(notes') = 1 /\ channels' = channels
       /\ \A i \in 1..Len(sends) :
            (UploadResponse(i, FALSE) \/ SendMessageResponse(i, "error"))
            => Len(notes') = 1 /\ sends' = RemoveAt(sends, i)
       /\ \A i \in 1..Len(appUpdates) :
            ApplicationStatusResponse(i, FALSE)
            => Len(notes') = 1 /\ appUpdates' = RemoveAt(appUpdates, i)
       /\ \A i \in 1..Len(msUpdates) :
            MilestoneStatusResponse(i, "error")
            => Len(notes') = 1 /\ msUpdates' = RemoveAt(msUpdates, i)]_vars

====
